---- MODULE Spec2Model ----
(***************************************************************************)
(* Model of the directory resolver (internal/postgres/directory.go) and of *)
(* the module proxy client exercised by internal/proxy/client_test.go.     *)
(*                                                                         *)
(* Paths and versions are strings.  The metadata store is the pair of      *)
(* tables the query reads: packages(path, module_path, version) and        *)
(* versions(module_path, version, major, minor, patch, prerelease).        *)
(***************************************************************************)
EXTENDS Integers, Sequences, FiniteSets, TLC

VARIABLES
    packages,   \* rows of table packages
    versions,   \* rows of table versions
    pc,         \* "idle" | "returned": position of the GetDirectory caller
    call,       \* arguments of the last GetDirectory call
    ret,        \* what the last GetDirectory call returned
    registry,   \* module versions the proxy serves, in the proxy's order
    ppc,        \* "idle" | "returned": position of the proxy client caller
    pcall,      \* arguments of the last proxy client call
    pret        \* what the last proxy client call returned

vars == <<packages, versions, pc, call, ret, registry, ppc, pcall, pret>>

(***************************************************************************)
(* Bounds.                                                                 *)
(***************************************************************************)
\* Largest number of rows in table packages.
MaxPkgs == 2
\* Largest number of rows in table versions in the version-ranking universe.
MaxVersions == 2
\* Largest number of module versions the proxy serves.
MaxRegistry == 3

(***************************************************************************)
(* Strings.                                                                *)
(***************************************************************************)
\* proxy.Latest, the version selector of "the latest version".
Latest == "latest"

\* Byte value of a one-character string (Go compares strings bytewise).
Ord(c) ==
    CASE c = "%" -> 37
      [] c = "-" -> 45
      [] c = "." -> 46
      [] c = "/" -> 47
      [] c = "0" -> 48
      [] c = "1" -> 49
      [] c = "2" -> 50
      [] c = "_" -> 95
      [] c = "a" -> 97
      [] c = "b" -> 98
      [] c = "v" -> 118
      [] c = "~" -> 126

\* s < t for strings, as Go's and (under the C collation) SQL's comparison.
RECURSIVE StrLess(_, _)
StrLess(s, t) ==
    IF t = "" THEN FALSE
    ELSE IF s = "" THEN TRUE
    ELSE IF Head(s) = Head(t) THEN StrLess(Tail(s), Tail(t))
    ELSE Ord(Head(s)) < Ord(Head(t))

\* t starts with s, character for character.
HasPrefix(t, s) ==
    /\ Len(s) <= Len(t)
    /\ SubSeq(t, 1, Len(s)) = s

\* SQL "s LIKE p": '_' in the pattern matches any one character, '%' any
\* run of characters, a backslash makes the next pattern character literal.
RECURSIVE Like(_, _)
Like(s, p) ==
    IF p = "" THEN s = ""
    ELSE IF Head(p) = "%"
        THEN Like(s, Tail(p)) \/ (s # "" /\ Like(Tail(s), p))
    ELSE IF Head(p) = "\\"
        THEN /\ Len(p) >= 2
             /\ s # ""
             /\ Head(s) = Head(Tail(p))
             /\ Like(Tail(s), Tail(Tail(p)))
    ELSE /\ s # ""
         /\ (Head(p) = "_" \/ Head(p) = Head(s))
         /\ Like(Tail(s), Tail(p))

(***************************************************************************)
(* The query of constructDirectoryQueryAndArgs, evaluated on the tables.   *)
(***************************************************************************)
\* A row of the result: the columns GetDirectory's collect keeps apart.
ResultRow(p) ==
    [Path |-> p.path, Version |-> p.version, ModulePath |-> p.module_path]

\* WHERE path LIKE $1 || '/%'
PathMatches(p, dirPath) == Like(p.path, dirPath \o "/%")

\* The operands of the LIKE swapped.
ModuleMatchesSwapped(v, dirPath) == Like(v.module_path \o "/", dirPath \o "/%")

\* WHERE $1 || '/' LIKE module_path || '/%'
ModuleMatches(v, dirPath) == Like(dirPath \o "/", v.module_path \o "/%")

\* ON p.module_path = v.module_path AND v.version = p.version
Joins(p, v) == p.module_path = v.module_path /\ v.version = p.version

\* CASE WHEN prerelease = '~' THEN 0 ELSE 1 END
ReleaseRank(v) == IF v.prerelease = "~" THEN 0 ELSE 1

\* The ORDER BY without its CASE term.
OrderedBeforeUnranked(v, w) ==
    \/ v.major > w.major
    \/ /\ v.major = w.major
       /\ \/ v.minor > w.minor
          \/ /\ v.minor = w.minor
             /\ \/ v.patch > w.patch
                \/ /\ v.patch = w.patch
                   /\ StrLess(w.prerelease, v.prerelease)

\* ORDER BY CASE ..., major DESC, minor DESC, patch DESC, prerelease DESC:
\* v sorts strictly before w (both rows of one module_path).
OrderedBefore(v, w) ==
    \/ ReleaseRank(v) < ReleaseRank(w)
    \/ /\ ReleaseRank(v) = ReleaseRank(w)
       /\ \/ v.major > w.major
          \/ /\ v.major = w.major
             /\ \/ v.minor > w.minor
                \/ /\ v.minor = w.minor
                   /\ \/ v.patch > w.patch
                      \/ /\ v.patch = w.patch
                         /\ StrLess(w.prerelease, v.prerelease)

\* The version branch: the rows of versions at $2 whose module owns $1.
ConcreteSubquery(vers, dirPath, version) ==
    {v \in vers : v.version = version /\ ModuleMatches(v, dirPath)}

\* The latest branch: SELECT DISTINCT ON (module_path) ... ORDER BY keeps,
\* for each module_path, one row that no other row of it sorts before.
\* The set of the row sets the subquery may produce.
LatestSubqueries(vers, dirPath) ==
    LET cand == {v \in vers : ModuleMatches(v, dirPath)}
        mods == {v.module_path : v \in cand}
        first(m) == {v \in cand : /\ v.module_path = m
                                  /\ \A w \in cand :
                                        w.module_path = m => ~OrderedBefore(w, v)}
    IN  {{f[m] : m \in mods} : f \in {g \in [mods -> cand] : \A m \in mods : g[m] \in first(m)}}

\* packages p INNER JOIN (subquery) v ON ... WHERE path LIKE ...
JoinRows(pkgs, sub, dirPath) ==
    {ResultRow(p) : p \in {q \in pkgs : /\ PathMatches(q, dirPath)
                                        /\ \E v \in sub : Joins(q, v)}}

\* The row sets the query built for (dirPath, version) may select.
constructDirectoryQueryAndArgs(pkgs, vers, dirPath, version) ==
    IF version # Latest
        THEN {JoinRows(pkgs, ConcreteSubquery(vers, dirPath, version), dirPath)}
        ELSE {JoinRows(pkgs, sub, dirPath) : sub \in LatestSubqueries(vers, dirPath)}

(***************************************************************************)
(* GetDirectory.                                                           *)
(***************************************************************************)
\* The orders in which the store may deliver a row set (the query has no
\* ORDER BY of its own): every sequence holding each row once.
Deliveries(rows) ==
    LET n == Cardinality(rows)
    IN  {o \in [1..n -> rows] : \A i, j \in 1..n : o[i] = o[j] => i = j}

\* func(i, j int) bool { return packages[i].Path < packages[j].Path }
PathLess(x, y) == StrLess(x.Path, y.Path)

\* One step of the insertion sort sort.Slice runs on a short slice: x moves
\* left while it is less than its left neighbour.
RECURSIVE InsertByPath(_, _)
InsertByPath(s, x) ==
    IF s = <<>> THEN <<x>>
    ELSE IF PathLess(x, s[Len(s)])
        THEN Append(InsertByPath(SubSeq(s, 1, Len(s) - 1), x), s[Len(s)])
    ELSE Append(s, x)

\* sort.Slice(packages, ...)
RECURSIVE SortByPath(_)
SortByPath(s) ==
    IF s = <<>> THEN <<>>
    ELSE InsertByPath(SortByPath(SubSeq(s, 1, Len(s) - 1)), s[Len(s)])

\* GetDirectory without its len(packages) == 0 test.
ResolveUnchecked(dirPath, collected) ==
    LET sorted == SortByPath(collected)
    IN  [dir |-> <<[Path       |-> dirPath,
                    ModulePath |-> IF sorted = <<>> THEN "" ELSE sorted[1].ModulePath,
                    Version    |-> IF sorted = <<>> THEN "" ELSE sorted[1].Version,
                    Packages   |-> sorted]>>,
         err |-> "nil"]

\* What GetDirectory returns once runQuery has collected the rows in
\* `collected`; a returned pointer is a sequence of length one, nil is <<>>.
Resolve(dirPath, collected) ==
    IF Len(collected) = 0
        THEN [dir |-> <<>>, err |-> "NotFound"]
        ELSE LET sorted == SortByPath(collected)
             IN  [dir |-> <<[Path       |-> dirPath,
                             ModulePath |-> sorted[1].ModulePath,
                             Version    |-> sorted[1].Version,
                             Packages   |-> sorted]>>,
                  err |-> "nil"]

proxyVars == <<registry, ppc, pcall, pret>>

\* What GetDirectory returns when runQuery fails (the store is down, the
\* context ends, a row does not scan).
QueryFailed == [dir |-> <<>>, err |-> "Internal"]

NoReturn == [dir |-> <<>>, err |-> "nil"]
NoCall == [dirPath |-> "", version |-> ""]

GetDirectory(dirPath, version) ==
    /\ pc = "idle"
    /\ pc' = "returned"
    /\ call' = [dirPath |-> dirPath, version |-> version]
    /\ \/ ret' = QueryFailed
       \/ \E rows \in constructDirectoryQueryAndArgs(packages, versions, dirPath, version) :
            \E collected \in Deliveries(rows) :
                ret' = Resolve(dirPath, collected)
    /\ UNCHANGED <<packages, versions>>
    /\ UNCHANGED proxyVars

\* The caller drops the Directory; the next call starts afresh.
Discard ==
    /\ pc = "returned"
    /\ pc' = "idle"
    /\ call' = NoCall
    /\ ret' = NoReturn
    /\ UNCHANGED <<packages, versions>>
    /\ UNCHANGED proxyVars

(***************************************************************************)
(* The proxy client: GetInfo, ListVersions and GetZip against a proxy that *)
(* serves the module versions in registry.                                 *)
(***************************************************************************)
\* The versions the proxy lists for modulePath, in the proxy's order.
RECURSIVE ListedPrefix(_, _)
ListedPrefix(reg, modulePath) ==
    IF reg = <<>> THEN <<>>
    ELSE IF HasPrefix(reg[1].ModulePath, modulePath)
        THEN <<reg[1].Version>> \o ListedPrefix(Tail(reg), modulePath)
    ELSE ListedPrefix(Tail(reg), modulePath)

RECURSIVE Listed(_, _)
Listed(reg, modulePath) ==
    IF reg = <<>> THEN <<>>
    ELSE IF reg[1].ModulePath = modulePath
        THEN <<reg[1].Version>> \o Listed(Tail(reg), modulePath)
    ELSE Listed(Tail(reg), modulePath)

Serves(reg, modulePath, version) ==
    \E i \in 1..Len(reg) : reg[i] = [ModulePath |-> modulePath, Version |-> version]

\* The minor number of the versions the proxy serves (all are v1.N.0).
MinorOf(version) ==
    CASE version = "v1.1.0" -> 1
      [] version = "v1.2.0" -> 2
      [] version = "v1.3.0" -> 3

\* The version the proxy's latest endpoint names for a module it serves.
LatestListed(reg, modulePath) ==
    LET listed == Listed(reg, modulePath)
    IN  CHOOSE v \in {listed[i] : i \in 1..Len(listed)} :
            \A i \in 1..Len(listed) : MinorOf(listed[i]) <= MinorOf(v)

\* A response body: a VersionInfo's version, a version list or an archive's
\* entries, the other two fields empty.
Body(version, list, files) == [Version |-> version, Versions |-> list, Files |-> files]
EmptyBody == Body("", <<>>, {})

\* The responses the proxy may give when it holds what is asked for (ok,
\* with `body`) or does not: it reports absence as 404 or as 410; any
\* request may also fail with a server error.
Responses(ok, body) ==
    (IF ok THEN {[status |-> 200, body |-> body]}
           ELSE {[status |-> 404, body |-> EmptyBody], [status |-> 410, body |-> EmptyBody]})
    \cup {[status |-> 500, body |-> EmptyBody]}

\* The error kind of a response status.
ErrorKind(status) ==
    IF status = 200 THEN "nil"
    ELSE IF status \in {404, 410} THEN "NotFound"
    ELSE "Transport"

\* A client that hands back the body whatever the status.
DecodeAnyStatus(resp) ==
    [status |-> resp.status, val |-> <<resp.body>>, err |-> ErrorKind(resp.status)]

\* What the client returns for a response: the decoded body when the status
\* is 200, else nil and the status's error kind.
Decode(resp) ==
    [status |-> resp.status,
     val    |-> IF resp.status = 200 THEN <<resp.body>> ELSE <<>>,
     err    |-> ErrorKind(resp.status)]

\* The entries of the archive of modulePath@version.
ArchiveOf(modulePath, version) ==
    {modulePath \o "@" \o version \o "/" \o f : f \in {"go.mod", "LICENSE"}}

NoProxyCall == [op |-> "", modulePath |-> "", version |-> ""]
NoProxyReturn == [status |-> 0, val |-> <<>>, err |-> "nil"]

storeVars == <<packages, versions, pc, call, ret>>

ProxyReturns(op, modulePath, version, result) ==
    /\ ppc = "idle"
    /\ ppc' = "returned"
    /\ pcall' = [op |-> op, modulePath |-> modulePath, version |-> version]
    /\ pret' = result
    /\ UNCHANGED registry
    /\ UNCHANGED storeVars

GetInfo(modulePath, version) ==
    LET ok == IF version = Latest
                  THEN Listed(registry, modulePath) # <<>>
                  ELSE Serves(registry, modulePath, version)
        info == IF ~ok THEN ""
                ELSE IF version = Latest THEN LatestListed(registry, modulePath)
                ELSE version
    IN  \E resp \in Responses(ok, Body(info, <<>>, {})) :
            ProxyReturns("GetInfo", modulePath, version, Decode(resp))

ListVersions(modulePath) ==
    LET listed == Listed(registry, modulePath)
    IN  \E resp \in Responses(listed # <<>>, Body("", listed, {})) :
            ProxyReturns("ListVersions", modulePath, "", Decode(resp))

GetZip(modulePath, version) ==
    \E resp \in Responses(Serves(registry, modulePath, version),
                          Body("", <<>>, ArchiveOf(modulePath, version))) :
        ProxyReturns("GetZip", modulePath, version, Decode(resp))

\* The caller drops the result; the next call starts afresh.
ProxyDiscard ==
    /\ ppc = "returned"
    /\ ppc' = "idle"
    /\ pcall' = NoProxyCall
    /\ pret' = NoProxyReturn
    /\ UNCHANGED registry
    /\ UNCHANGED storeVars

\* The module versions a proxy may serve, and what a caller may ask for.
ServedModules == {"foo.com/bar", "foo.com/baz", "foo.com/bar/v2"}
ServedVersions == {"v1.1.0", "v1.2.0", "v1.3.0"}
TestVersions == {[ModulePath |-> m, Version |-> v] : m \in ServedModules, v \in ServedVersions}
AskedModules == ServedModules \cup {"my.mod/nonexistmodule"}
AskedVersions == ServedVersions \cup {"v3.0.0"}

\* The sequences of at most n distinct elements of S.
RECURSIVE SeqsUpTo(_, _)
SeqsUpTo(S, n) ==
    IF n = 0 THEN {<<>>}
    ELSE LET shorter == SeqsUpTo(S, n - 1)
         IN  shorter \cup {Append(q, x) : <<q, x>> \in
                               {qx \in shorter \X S :
                                   \A i \in 1..Len(qx[1]) : qx[1][i] # qx[2]}}

(***************************************************************************)
(* Store contents and call arguments the model draws from.                 *)
(***************************************************************************)
\* The subsets of S with at most n elements.
RECURSIVE SubsetsUpTo(_, _)
SubsetsUpTo(S, n) ==
    IF n = 0 THEN {{}}
    ELSE LET smaller == SubsetsUpTo(S, n - 1)
         IN  smaller \cup {T \cup {x} : T \in smaller, x \in S}

\* Paths of one, two and three of the segments in S.
Paths1(S) == S
Paths2(S) == {p \o "/" \o s : p \in S, s \in S}
Paths3(S) == {p \o "/" \o s : p \in Paths2(S), s \in S}

\* The version string of a semantic version, as the versions table holds it
\* beside its parsed columns; prerelease '~' marks a release.
VersionString(major, minor, patch, prerelease) ==
    "v" \o ToString(major) \o "." \o ToString(minor) \o "." \o ToString(patch)
        \o (IF prerelease = "~" THEN "" ELSE "-" \o prerelease)

VersionRow(m, major, minor, patch, prerelease) ==
    [module_path |-> m,
     version     |-> VersionString(major, minor, patch, prerelease),
     major       |-> major,
     minor       |-> minor,
     patch       |-> patch,
     prerelease  |-> prerelease]

\* Package rows over the segments S at the versions V (tuples of major,
\* minor, patch, prerelease): a module of one or two segments, and a package
\* at the module's root or below it.
PackageRows(S, V) ==
    {[path |-> mp[2], module_path |-> mp[1],
      version |-> VersionString(t[1], t[2], t[3], t[4])] :
        mp \in {x \in (Paths1(S) \cup Paths2(S))
                         \X (Paths1(S) \cup Paths2(S) \cup Paths3(S)) :
                   x[2] = x[1] \/ HasPrefix(x[2], x[1] \o "/")},
        t \in V}

\* The versions row every package row refers to.
VersionsOf(pkgs, V) ==
    {VersionRow(p.module_path, t[1], t[2], t[3], t[4]) :
        <<p, t>> \in {x \in pkgs \X V :
                        VersionString(x[2][1], x[2][2], x[2][3], x[2][4]) = x[1].version}}

\* The versions of the stored packages: one, and two in the smaller store.
OneVersion == {<<1, 0, 0, "~">>}
TwoVersions == {<<1, 0, 0, "~">>, <<1, 1, 0, "~">>}

\* Path segments of stored modules and packages: a name, a name that
\* extends it, and a name holding the LIKE wildcard '_'.
Segments == {"a", "ab", "_"}
\* The segments of the smaller store.
FewSegments == {"a", "_"}

\* Version rows of the nested modules a and a/a, for the ranking.
RankedVersionRows ==
    {VersionRow(m, major, minor, patch, prerelease) :
        m \in {"a", "a/a"}, major \in {0, 1}, minor \in {0, 1}, patch \in {0, 1},
        prerelease \in {"~", "a", "b"}}

\* Every version of either module holds the package a/a/a.
PackagesOf(vers) ==
    {[path |-> "a/a/a", module_path |-> v.module_path, version |-> v.version] : v \in vers}

\* dirPath arguments: what a caller may send, '%' included.
DirPaths ==
    Paths1(Segments \cup {"%"}) \cup Paths2(Segments \cup {"%"}) \cup Paths3(FewSegments)

\* dirPath arguments sent to the smaller store.
FewDirPaths ==
    Paths1(FewSegments \cup {"%"}) \cup Paths2(FewSegments \cup {"%"}) \cup Paths3(FewSegments)

\* version arguments.
Selectors == {Latest, VersionString(1, 0, 0, "~"), VersionString(1, 1, 0, "~")}

InitCalls ==
    /\ pc = "idle"
    /\ call = NoCall
    /\ ret = NoReturn

InitNoProxy ==
    /\ registry = <<>>
    /\ ppc = "idle"
    /\ pcall = NoProxyCall
    /\ pret = NoProxyReturn

Init ==
    /\ packages \in SubsetsUpTo(PackageRows(Segments, OneVersion), MaxPkgs)
    /\ versions = VersionsOf(packages, OneVersion)
    /\ InitCalls
    /\ InitNoProxy

InitMatch ==
    /\ packages \in SubsetsUpTo(PackageRows(FewSegments, TwoVersions), MaxPkgs)
    /\ versions = VersionsOf(packages, TwoVersions)
    /\ InitCalls
    /\ InitNoProxy

InitLatest ==
    /\ versions \in SubsetsUpTo(RankedVersionRows, MaxVersions)
    /\ packages = PackagesOf(versions)
    /\ InitCalls
    /\ InitNoProxy

Next ==
    \/ \E dirPath \in DirPaths, version \in Selectors : GetDirectory(dirPath, version)
    \/ Discard

InitProxy ==
    /\ packages = {}
    /\ versions = {}
    /\ InitCalls
    /\ registry \in SeqsUpTo(TestVersions, MaxRegistry)
    /\ ppc = "idle"
    /\ pcall = NoProxyCall
    /\ pret = NoProxyReturn

NextProxy ==
    \/ \E m \in AskedModules, v \in AskedVersions \cup {Latest} : GetInfo(m, v)
    \/ \E m \in AskedModules : ListVersions(m)
    \/ \E m \in AskedModules, v \in AskedVersions : GetZip(m, v)
    \/ ProxyDiscard

NextMatch ==
    \/ \E dirPath \in FewDirPaths, version \in Selectors : GetDirectory(dirPath, version)
    \/ Discard

Spec == Init /\ [][Next]_vars
SpecProxy == InitProxy /\ [][NextProxy]_vars
SpecMatch == InitMatch /\ [][NextMatch]_vars
SpecLatest == InitLatest /\ [][Next]_vars

(***************************************************************************)
(* The matching rule as the documentation states it, on literal prefixes.  *)
(***************************************************************************)
\* Rule 1 as the specification words it: P is dirPath or lies below it.
AtOrUnder(P, dirPath) == P = dirPath \/ HasPrefix(P, dirPath \o "/")
\* Rule 1 as GetDirectory's comment words it: P lies below dirPath.
Under(P, dirPath) == HasPrefix(P, dirPath \o "/")
\* Rule 2: module M owns dirPath.
Owns(M, dirPath) == HasPrefix(dirPath \o "/", M \o "/")

Returned == pc = "returned"
ReturnedDirectory == pc = "returned" /\ ret.err = "nil" /\ Len(ret.dir) = 1
Dir == ret.dir[1]
ReturnedRows == {Dir.Packages[i] : i \in 1..Len(Dir.Packages)}

\* The stored records that pass the three rules, rule 1 read on Under.
Matching(dirPath, version) ==
    {p \in packages : /\ Under(p.path, dirPath)
                      /\ Owns(p.module_path, dirPath)
                      /\ p.version = version}

\* C1: every package GetDirectory returns lies at or below dirPath and its
\* module owns dirPath, on literal prefixes, and the Directory's ModulePath
\* is a prefix of its Path cut at a "/".
C1_Soundness ==
    ReturnedDirectory =>
        /\ Owns(Dir.ModulePath, Dir.Path)
        /\ \A r \in ReturnedRows :
              /\ AtOrUnder(r.Path, call.dirPath)
              /\ Owns(r.ModulePath, call.dirPath)

\* C2 as stated: for a concrete version every stored record at or below
\* dirPath whose module owns dirPath is returned, the record at dirPath
\* itself included.
C2_Original ==
    (Returned /\ call.version # Latest /\ ret.err # "Internal") =>
        \A p \in packages :
            (/\ AtOrUnder(p.path, call.dirPath)
             /\ Owns(p.module_path, call.dirPath)
             /\ p.version = call.version)
            => (ReturnedDirectory /\ ResultRow(p) \in ReturnedRows)

\* C2 as amended: for a concrete version every stored record strictly below
\* dirPath whose module owns dirPath is returned.
C2_Completeness ==
    (Returned /\ call.version # Latest /\ ret.err # "Internal") =>
        \A p \in Matching(call.dirPath, call.version) :
            ReturnedDirectory /\ ResultRow(p) \in ReturnedRows

\* A concrete-version call returned a record that lies below a dirPath
\* that is not the record's module path.
C2_Witness ==
    /\ ReturnedDirectory
    /\ call.version # Latest
    /\ \E p \in Matching(call.dirPath, call.version) :
          /\ ResultRow(p) \in ReturnedRows
          /\ p.module_path # call.dirPath

\* The modules that own call.dirPath and have a matching record.
OwningModules ==
    {p.module_path : p \in {q \in packages :
        /\ Under(q.path, call.dirPath)
        /\ Owns(q.module_path, call.dirPath)
        /\ (call.version = Latest \/ q.version = call.version)}}

\* C3: when two or more modules own dirPath and have matching records, the
\* Directory is resolved to the module with the longest path and holds no
\* record of another module.
C3_LongestMatch ==
    (ReturnedDirectory /\ Cardinality(OwningModules) >= 2) =>
        /\ Dir.ModulePath \in OwningModules
        /\ \A m \in OwningModules : Len(m) <= Len(Dir.ModulePath)
        /\ \A r \in ReturnedRows : r.ModulePath = Dir.ModulePath

\* C5: every package of a returned Directory has the Directory's ModulePath
\* and Version.
C5_Homogeneous ==
    ReturnedDirectory =>
        \A r \in ReturnedRows :
            r.ModulePath = Dir.ModulePath /\ r.Version = Dir.Version

\* C6: the Packages of a returned Directory are strictly increasing by
\* import path.
C6_StrictlySorted ==
    ReturnedDirectory =>
        \A i \in 1..(Len(Dir.Packages) - 1) :
            StrLess(Dir.Packages[i].Path, Dir.Packages[i + 1].Path)

\* C10: a GetDirectory call leaves the store as it was, and what it returns
\* is the one outcome every delivery order of the matching rows gives.
C10_PureRead ==
    [][(pc = "idle" /\ pc' = "returned" /\ ret'.err # "Internal") =>
          /\ packages' = packages
          /\ versions' = versions
          /\ \A rows \in constructDirectoryQueryAndArgs(
                             packages, versions, call'.dirPath, call'.version) :
                \A collected \in Deliveries(rows) :
                    Resolve(call'.dirPath, collected) = ret']_vars

\* Release before prerelease, then major, minor, patch descending, then the
\* prerelease string descending: w ranks strictly above v.
IsRelease(v) == v.prerelease = "~"
Outranks(w, v) ==
    LET nw == <<w.major, w.minor, w.patch>>
        nv == <<v.major, v.minor, v.patch>>
        higher == \E i \in 1..3 : nw[i] > nv[i] /\ \A j \in 1..(i - 1) : nw[j] = nv[j]
    IN  IF IsRelease(w) # IsRelease(v) THEN IsRelease(w)
        ELSE higher \/ (nw = nv /\ StrLess(v.prerelease, w.prerelease))

VersionsOfModule(m) == {v \in versions : v.module_path = m}

\* C4: for "latest", the returned packages of a module all carry one stored
\* version of it, which no stored version of the module outranks and which
\* is a release whenever the module has a release; and the packages of that
\* version below dirPath are returned for every module owning dirPath.
C4_LatestSelection ==
    (ReturnedDirectory /\ call.version = Latest) =>
        /\ \A r \in ReturnedRows :
              /\ \E v \in VersionsOfModule(r.ModulePath) :
                    /\ v.version = r.Version
                    /\ \A w \in VersionsOfModule(r.ModulePath) : ~Outranks(w, v)
                    /\ (\E w \in VersionsOfModule(r.ModulePath) : IsRelease(w))
                          => IsRelease(v)
              /\ \A q \in ReturnedRows :
                    q.ModulePath = r.ModulePath => q.Version = r.Version
        /\ \A v \in versions :
              (/\ Owns(v.module_path, call.dirPath)
               /\ \A w \in VersionsOfModule(v.module_path) : ~Outranks(w, v))
              => \A p \in Matching(call.dirPath, v.version) :
                    p.module_path = v.module_path => ResultRow(p) \in ReturnedRows

\* "latest" returned a module's release although the module also has a
\* prerelease with a higher major number.
C4_Witness ==
    /\ ReturnedDirectory
    /\ call.version = Latest
    /\ \E r \in ReturnedRows :
          \E v, w \in VersionsOfModule(r.ModulePath) :
              /\ v.version = r.Version
              /\ IsRelease(v)
              /\ ~IsRelease(w)
              /\ w.major > v.major

ProxyReturned == ppc = "returned"

\* What is asked for is not in the registry.
Absent ==
    IF pcall.op = "ListVersions" \/ pcall.version = Latest
        THEN \A i \in 1..Len(registry) : registry[i].ModulePath # pcall.modulePath
        ELSE \A i \in 1..Len(registry) :
                registry[i] # [ModulePath |-> pcall.modulePath, Version |-> pcall.version]

\* C8: when the registry reports that the module or version does not exist
\* (status 404 or 410), GetInfo, ListVersions and GetZip return a NotFound
\* error and no value; the registry reports so whenever it answers a request
\* for what it does not hold.
C8_AbsenceIsNotFound ==
    ProxyReturned =>
        /\ pret.status \in {404, 410} => (pret.err = "NotFound" /\ pret.val = <<>>)
        /\ (Absent /\ pret.status # 500) => (pret.err = "NotFound" /\ pret.val = <<>>)
        /\ pret.err = "NotFound" => Absent

\* GetInfo of a version the registry does not hold, of a module it serves
\* at another version, returned NotFound and no VersionInfo.
C8_Witness ==
    /\ ProxyReturned
    /\ pcall.op = "GetInfo"
    /\ pcall.version # Latest
    /\ \E i \in 1..Len(registry) : registry[i].ModulePath = pcall.modulePath
    /\ Absent
    /\ pret.err = "NotFound"
    /\ pret.val = <<>>

\* The registry's entries of modulePath, in the registry's order.
EntriesOf(modulePath) == SelectSeq(registry, LAMBDA e : e.ModulePath = modulePath)

\* C9: ListVersions returns exactly the versions the registry holds for the
\* module, in the registry's order, and no version of another module.
C9_ListVersions ==
    (ProxyReturned /\ pcall.op = "ListVersions" /\ pret.err = "nil") =>
        /\ Len(pret.val) = 1
        /\ Len(pret.val[1].Versions) = Len(EntriesOf(pcall.modulePath))
        /\ \A i \in 1..Len(pret.val[1].Versions) :
              pret.val[1].Versions[i] = EntriesOf(pcall.modulePath)[i].Version

\* ListVersions returned two versions of foo.com/bar while the registry
\* also holds a version of a module whose path extends foo.com/bar.
C9_Witness ==
    /\ ProxyReturned
    /\ pcall.op = "ListVersions"
    /\ pcall.modulePath = "foo.com/bar"
    /\ pret.err = "nil"
    /\ Len(pret.val[1].Versions) = 2
    /\ \E i \in 1..Len(registry) : registry[i].ModulePath = "foo.com/bar/v2"

====
